---------------------------- MODULE Spec2Model ----------------------------
(***************************************************************************)
(* A model of src/scraper/scraper.py, the FOMC speech scraper: the date    *)
(* parser, the site adapters, the scoring client, the corpus store and the *)
(* pipeline run().                                                         *)
(*                                                                         *)
(* Abstractions.                                                           *)
(*  - A text that may hold a date is a sequence of tokens (the words of    *)
(*    the text after whitespace is collapsed) and the calendar date the    *)
(*    tokens denote.  Token classes:                                       *)
(*      "B"     a full month name            "January"                     *)
(*      "b"     an abbreviated month name    "Jan"                         *)
(*      "Wd"    any other word               "Remarks"                     *)
(*      "D"     one or two digits            "5"                           *)
(*      "DC"    one or two digits and comma  "5,"                          *)
(*      "DO"    an ordinal and comma         "5th,"                        *)
(*      "DCY"   day, comma, year, no space   "5,2024"                      *)
(*      "Y"     four digits                  "2024"                        *)
(*      "Iso"   an ISO date                  "2024-01-05"                  *)
(*      "Slash" a US date                    "01/05/2024"                  *)
(*  - A calendar date is <<month, day>> of one year; its ISO string is     *)
(*    ordered as the pair is ordered lexicographically.                    *)
(***************************************************************************)
EXTENDS Integers, Sequences, FiniteSets, TLC

VARIABLES
    pd,             \* parse_date: the call's input text and what it returned
    sc,             \* score_speech: the call in progress
    scr,            \* a site adapter call: page, lookback and returned list
    pc,             \* run(): the position of the process
    runNo,          \* run(): which invocation of the pipeline this is
    env,            \* the environment: the configured LOOKBACK_DAYS
    disk,           \* CORPUS_FILE: the durable store
    corpus,         \* run(): the in-memory corpus
    LOOKBACK_DAYS,  \* the module global of that name
    all_speeches,   \* run(): the candidate list
    idx,            \* run(): index of the candidate the loop is at
    total_new,      \* run(): the counter of that name
    upstream,       \* the pages the sources serve (fixed during a behaviour)
    hist            \* history: what each run loaded and did to each candidate

vars == <<pd, sc, scr, pc, runNo, env, disk, corpus, LOOKBACK_DAYS, all_speeches,
          idx, total_new, upstream, hist>>

None == "None"

\* LOOKBACK_DAYS = int(os.getenv("LOOKBACK_DAYS", "7"))
DefaultLookback == 7

Max(a, b) == IF a >= b THEN a ELSE b

RECURSIVE SeqsUpTo(_, _)
SeqsUpTo(S, n) ==
    IF n = 0 THEN {<<>>}
    ELSE LET shorter == SeqsUpTo(S, n - 1)
         IN  shorter \cup {Append(s, x) : s \in {t \in shorter : Len(t) = n - 1}, x \in S}

(***************************************************************************)
(* DATE PARSER                                                             *)
(***************************************************************************)
Tokens == {"B", "b", "Wd", "D", "DC", "DO", "DCY", "Y", "Iso", "Slash"}

\* Longest text, in tokens, given to parse_date in ParseSpec.
MaxLen == 3

\* Frames parse_date may nest before the interpreter raises RecursionError.
RecursionLimit == 3

\* The date every text of ParseSpec denotes.
SomeDate == <<11, 2>>

\* re.sub(r'(st|nd|rd|th),', ',', text): the ordinal suffix before a comma goes.
StripOrdinals(toks) ==
    [i \in 1..Len(toks) |-> IF toks[i] = "DO" THEN "DC" ELSE toks[i]]

\* DATE_FMTS, each as the token sequences datetime.strptime accepts for it
\* (strptime must consume the whole string).
DATE_FMTS == <<
    {<<"B", "DC", "Y">>},      \* "%B %d, %Y"
    {<<"b", "DC", "Y">>},      \* "%b %d, %Y"
    {<<"B", "DCY">>},          \* "%B %d,%Y"
    {<<"Iso">>},               \* "%Y-%m-%d"
    {<<"Slash">>},             \* "%m/%d/%Y"
    {<<"D", "B", "Y">>},       \* "%d %B %Y"
    {<<"B", "Y">>}             \* "%B %Y"
>>

\* for fmt in DATE_FMTS: try strptime ... except: pass
StrptimeAny(toks) == \E k \in 1..Len(DATE_FMTS) : toks \in DATE_FMTS[k]

\* The date strptime returns: "%B %Y" names no day and yields the month's first.
StrptimeDate(toks, val) == IF toks = <<"B", "Y">> THEN <<val[1], 1>> ELSE val

\* What \w+ matches at the end of a token, right before the following space.
WordSuffix(tok) ==
    CASE tok \in {"B", "b", "Wd", "D", "Y"} -> tok
      [] tok = "Iso"                        -> "D"      \* "05" of 2024-01-05
      [] tok \in {"Slash", "DCY"}           -> "Y"      \* "2024"
      [] OTHER                              -> None     \* "5," ends in a comma

\* Positions where r'(\w+ \d{1,2},? \d{4})' matches: a word, then one or two
\* digits with an optional comma, then a token that starts with four digits.
MonthNameMatches(toks) ==
    {i \in 1..(Len(toks) - 2) :
        /\ WordSuffix(toks[i]) # None
        /\ toks[i + 1] \in {"D", "DC"}
        /\ toks[i + 2] \in {"Y", "Iso"}}

\* m.group(1) of the leftmost match.
MonthNameGroup(toks) ==
    LET i == CHOOSE j \in MonthNameMatches(toks) :
                 \A k \in MonthNameMatches(toks) : j <= k
    IN  <<WordSuffix(toks[i]), toks[i + 1], "Y">>

\* re.search(r'(\d{4}-\d{2}-\d{2})', text) and date.fromisoformat
IsoMatches(toks) == \E i \in 1..Len(toks) : toks[i] = "Iso"

\* What a call that yields a date, None or an exception returns.
ADate(d) == [kind |-> "date", d |-> d]
NoDate == [kind |-> "none", d |-> <<0, 0>>]
Raised == [kind |-> "raise", d |-> <<0, 0>>]

RECURSIVE parse_date_at(_, _)
parse_date_at(text, depth) ==
    IF depth > RecursionLimit THEN Raised      \* RecursionError
    ELSE IF text.toks = <<>> THEN NoDate
    ELSE LET toks == StripOrdinals(text.toks)
         IN  IF StrptimeAny(toks) THEN ADate(StrptimeDate(toks, text.val))
             ELSE IF MonthNameMatches(toks) # {}
                  THEN parse_date_at([toks |-> MonthNameGroup(toks), val |-> text.val],
                                     depth + 1)
             ELSE IF IsoMatches(toks) THEN ADate(text.val)
             ELSE NoDate

parse_date(text) == parse_date_at(text, 1)

(***************************************************************************)
(* CALENDAR.  A date is <<month, day>> of one non-leap year.               *)
(***************************************************************************)
MonthDays == <<31, 28, 31, 30, 31, 30, 31, 31, 30, 31, 30, 31>>

RECURSIVE DaysBeforeMonth(_)
DaysBeforeMonth(m) == IF m = 1 THEN 0 ELSE DaysBeforeMonth(m - 1) + MonthDays[m - 1]

\* date.toordinal, within the year
Ord(d) == DaysBeforeMonth(d[1]) + d[2]

\* Comparison of two ISO date strings (zero padded, so lexicographic).
IsoLeq(a, b) == a[1] < b[1] \/ (a[1] = b[1] /\ a[2] <= b[2])

\* date.today()
Today == <<11, 5>>

(***************************************************************************)
(* SPEAKER RESOLVER.  A text is resolved by the set of member names it     *)
(* mentions; the table is MEMBER_MAP cut to its first three members.       *)
(***************************************************************************)
MEMBER_MAP == <<"powell", "jefferson", "williams">>

match_member(names) ==
    IF \E k \in 1..Len(MEMBER_MAP) : MEMBER_MAP[k] \in names
    THEN MEMBER_MAP[CHOOSE k \in 1..Len(MEMBER_MAP) :
                        /\ MEMBER_MAP[k] \in names
                        /\ \A j \in 1..(k - 1) : MEMBER_MAP[j] \notin names]
    ELSE None

(***************************************************************************)
(* URLS.  A url is [base, path]: base is "" for a relative or empty        *)
(* string and the scheme and host ("https://...") otherwise.               *)
(***************************************************************************)
EmptyUrl == [base |-> "", path |-> ""]

\* url.startswith("http")
StartsWithHttp(u) == u.base # ""

\* base_url + href
Concat(base_url, href) == [base |-> base_url, path |-> href.path]

\* any(x in href.lower() for x in ["/speech", "speech/", "/remarks", "/talk"])
HasSpeechMarker(href) == href.path \in {"/speech/a", "/speech/b", "/speech/c"}

(***************************************************************************)
(* SITE SCRAPERS                                                           *)
(*                                                                         *)
(* A listing item (an RSS <item>, a matched element, or an anchor) is      *)
(*   has_title  whether it holds a <title> element (RSS)                   *)
(*   title   the length of the title text / of the anchor's text           *)
(*   link    whether it holds a <link> / <a> element                       *)
(*   href    link.string / link.text (RSS), a["href"] (HTML)               *)
(*   sibling link.next_sibling: nothing, a tag, or a text holding a url    *)
(*   date    the text of pubDate / of the date element ("" when absent)    *)
(*   block   the text of the whole item / of the anchor's enclosing block  *)
(*   href_date  the date written in the href's path, if any                *)
(*   names   the member names the item's text mentions                     *)
(* A page is [ok, items, anchors]: ok is whether the GET succeeded, items  *)
(* what the item selectors match, anchors what find_all("a", href=True)    *)
(* returns.                                                                *)
(***************************************************************************)
\* cutoff = date.today() - timedelta(days=LOOKBACK_DAYS), as an ordinal
Cutoff(lookback) == Ord(Today) - lookback

Candidate(source, item, d, url) ==
    [source |-> source, member_id |-> match_member(item.names),
     date |-> d, url |-> url]

Skip == [kind |-> "skip"]
Raise == [kind |-> "raise"]
Found(sp) == [kind |-> "append", sp |-> sp]

\* scrape_fed_board: the body of the per-item try
FedBoardItem(item, lookback) ==
    IF ~item.has_title \/ ~item.link THEN Skip
    ELSE LET speech_date == parse_date(item.date)
         IN  IF speech_date.kind = "raise" THEN Raise
             ELSE IF speech_date.kind = "none" \/ Ord(speech_date.d) < Cutoff(lookback)
                  THEN Skip
             ELSE LET url == IF item.href # EmptyUrl THEN item.href
                             ELSE IF item.sibling.kind = "text" THEN item.sibling.url
                             ELSE EmptyUrl   \* str(tag) is markup, never http
                  IN  IF url = EmptyUrl \/ ~StartsWithHttp(url) THEN Skip
                      ELSE Found(Candidate("fed_board", item, speech_date.d, url))

\* scrape_newyorkfed: the body of the per-item try
NewYorkFedItem(item, lookback) ==
    IF ~item.has_title \/ ~item.link THEN Skip
    ELSE LET speech_date == parse_date(item.date)
         IN  IF speech_date.kind = "raise" THEN Raise
             ELSE IF speech_date.kind = "none" \/ Ord(speech_date.d) < Cutoff(lookback)
                  THEN Skip
             ELSE IF StartsWithHttp(item.href)
                  THEN Found(Candidate("ny_fed", item, speech_date.d, item.href))
             ELSE IF item.sibling.kind = "tag" THEN Raise   \* Tag.strip is not callable
             ELSE Found(Candidate("ny_fed", item, speech_date.d,
                                  IF item.sibling.kind = "none" THEN EmptyUrl
                                  ELSE item.sibling.url))

\* parse_date(date_str) or parse_date(item.get_text(" ", strip=True))
DateOrBlock(item) ==
    LET first == parse_date(item.date)
    IN  IF first.kind = "none" THEN parse_date(item.block) ELSE first

\* scrape_regional, structural mode: the body of the per-item try
RegionalItem(bank_id, base_url, item, lookback) ==
    IF ~item.link THEN Skip
    ELSE LET speech_date == DateOrBlock(item)
         IN  IF speech_date.kind = "raise" THEN Raise
             ELSE IF speech_date.kind = "none" \/ Ord(speech_date.d) < Cutoff(lookback)
                  THEN Skip
             ELSE LET speech_url == IF StartsWithHttp(item.href) THEN item.href
                                    ELSE Concat(base_url, item.href)
                  IN  Found(Candidate(bank_id, item, speech_date.d, speech_url))

\* scrape_regional, link fallback: the body of the loop over anchors, given the
\* hrefs seen so far.  href_date is the date r'(\d{4})[-/](\d{2})[-/](\d{2})'
\* finds in the href (None when it finds none), used when the block has none.
FallbackItem(bank_id, base_url, a, seen, lookback) ==
    IF a.title < 12 \/ a.href \in seen THEN Skip
    ELSE IF ~HasSpeechMarker(a.href) THEN Skip
    ELSE LET parsed == parse_date(a.block)
             speech_date == IF parsed.kind = "none" THEN a.href_date ELSE parsed
         IN  IF speech_date.kind = "raise" THEN Raise
             ELSE IF speech_date.kind = "none" \/ Ord(speech_date.d) < Cutoff(lookback)
                  THEN Skip
             ELSE Found(Candidate(bank_id, a, speech_date.d,
                                  IF StartsWithHttp(a.href) THEN a.href
                                  ELSE Concat(base_url, a.href)))

\* seen.add(href) is reached once the title and marker tests pass.
FallbackSeen(a, seen) ==
    IF a.title < 12 \/ a.href \in seen \/ ~HasSpeechMarker(a.href)
    THEN seen ELSE seen \cup {a.href}

\* for item in items: try: ... except Exception: log.warning(...)
\* An item that raises is logged and the loop goes on to the next.
RECURSIVE FeedLoop(_, _, _, _, _)
FeedLoop(adapter, items, i, lookback, speeches) ==
    IF i > Len(items) THEN speeches
    ELSE LET r == IF adapter = "fed_board" THEN FedBoardItem(items[i], lookback)
                  ELSE NewYorkFedItem(items[i], lookback)
         IN  FeedLoop(adapter, items, i + 1, lookback,
                      IF r.kind = "append" THEN Append(speeches, r.sp) ELSE speeches)

scrape_fed_board(page, lookback) ==
    IF ~page.ok THEN <<>> ELSE FeedLoop("fed_board", page.items, 1, lookback, <<>>)

scrape_newyorkfed(page, lookback) ==
    IF ~page.ok THEN <<>> ELSE FeedLoop("ny_fed", page.items, 1, lookback, <<>>)

RECURSIVE StructuralLoop(_, _, _, _, _, _)
StructuralLoop(bank_id, base_url, items, i, lookback, speeches) ==
    IF i > Len(items) THEN speeches
    ELSE LET r == RegionalItem(bank_id, base_url, items[i], lookback)
         IN  StructuralLoop(bank_id, base_url, items, i + 1, lookback,
                            IF r.kind = "append" THEN Append(speeches, r.sp) ELSE speeches)

\* The fallback loop has no try of its own: an anchor that raises leaves the
\* loop for the handler of the page-level try, and scrape_regional returns the
\* speeches appended before it.
RECURSIVE FallbackLoop(_, _, _, _, _, _, _)
FallbackLoop(bank_id, base_url, anchors, i, seen, lookback, speeches) ==
    IF i > Len(anchors) THEN speeches
    ELSE LET r == FallbackItem(bank_id, base_url, anchors[i], seen, lookback)
         IN  IF r.kind = "raise" THEN speeches
             ELSE FallbackLoop(bank_id, base_url, anchors, i + 1,
                               FallbackSeen(anchors[i], seen), lookback,
                               IF r.kind = "append" THEN Append(speeches, r.sp)
                               ELSE speeches)

scrape_regional(bank_id, base_url, page, lookback) ==
    IF ~page.ok THEN <<>>
    ELSE IF page.items = <<>>
         THEN FallbackLoop(bank_id, base_url, page.anchors, 1, {}, lookback, <<>>)
    ELSE StructuralLoop(bank_id, base_url, page.items, 1, lookback, <<>>)

(***************************************************************************)
(* SCORING ENGINE                                                          *)
(*                                                                         *)
(* A reply of the classification service is [kind, fenced, stance,         *)
(* balance, direction, composite]: kind is "error" (messages.create        *)
(* raises), "text" (content that is not JSON), "array" (JSON, not an       *)
(* object) or "object"; fenced is whether the content is wrapped in a      *)
(* ```json fence; each field is the JSON value under that key: an          *)
(* integer, null, or missing.                                              *)
(***************************************************************************)
IntVal(v) == [t |-> "int", v |-> v]
Null == [t |-> "null", v |-> 0]
Missing == [t |-> "missing", v |-> 0]

\* The mutant of the retry bound that allows one attempt more.
MaxAttemptsOneMore == 3 + 1

\* for attempt in range(3)
MaxAttempts == 3

\* if not text or len(text) < 50: return None
MinTextLen == 50

\* time.sleep(2 ** attempt)
Backoff(attempt) == 2 ^ attempt

\* re.sub(r"^```json|^```|```$", "", ...).strip(): the fence goes.
StripFence(reply) == [reply EXCEPT !.fenced = FALSE]

\* json.loads(raw) returns, and every int(parsed.get(key, 0)) returns.
Parses(reply) ==
    LET raw == StripFence(reply)
    IN  /\ raw.kind = "object"
        /\ ~raw.fenced
        /\ \A f \in {raw.composite, raw.stance, raw.balance, raw.direction} :
               f.t # "null"

\* int(parsed.get(key, 0))
IntOf(f) == IF f.t = "missing" THEN 0 ELSE f.v

NoScore == [ok |-> FALSE, score |-> 0, stance |-> 0, balance |-> 0, direction |-> 0]

\* The dict score_speech returns (reason, keywords and model left out).
ScoreDict(reply) ==
    [ok |-> TRUE,
     score     |-> IntOf(reply.composite),
     stance    |-> IntOf(reply.stance),
     balance   |-> IntOf(reply.balance),
     direction |-> IntOf(reply.direction)]

NoReply == [kind |-> "none", fenced |-> FALSE, stance |-> Missing,
            balance |-> Missing, direction |-> Missing, composite |-> Missing]

\* The state of a call of score_speech on a text of the given length.
ScoreCallOn(text_len) ==
    [pc |-> "start", text_len |-> text_len, attempt |-> 0, log |-> <<>>,
     reply |-> NoReply, ret |-> NoScore]

ScoreIdle == [ScoreCallOn(0) EXCEPT !.pc = "idle"]

SubScores == {IntVal(-40), IntVal(10), IntVal(150), Missing, Null}
Composites == {IntVal(-9), IntVal(50), Missing}

AllReplies ==
    {[NoReply EXCEPT !.kind = k] : k \in {"error", "text", "array"}}
    \cup {[kind |-> "object", fenced |-> fc, stance |-> st, balance |-> b,
           direction |-> d, composite |-> c] :
            fc \in BOOLEAN, st \in SubScores, b \in SubScores, d \in SubScores,
            c \in Composites}

\* The replies met inside a pipeline run: an error, or one well-formed object.
RunReplies ==
    {[NoReply EXCEPT !.kind = "error"],
     [kind |-> "object", fenced |-> TRUE, stance |-> IntVal(-40), balance |-> IntVal(10),
      direction |-> IntVal(10), composite |-> IntVal(-5)]}

Replies == IF pc = None THEN AllReplies ELSE RunReplies

RunVars == <<pc, runNo, env, disk, corpus, LOOKBACK_DAYS, all_speeches, idx,
             total_new, upstream, hist>>

\* if not text or len(text) < 50: return None; else enter the loop
ScoreEnter ==
    /\ sc.pc = "start"
    /\ sc' = IF sc.text_len < MinTextLen
             THEN [sc EXCEPT !.pc = "done", !.ret = NoScore]
             ELSE [sc EXCEPT !.pc = "try", !.attempt = 0]
    /\ UNCHANGED <<pd, scr>> /\ UNCHANGED RunVars

\* The top of the loop body: if attempt > 0: time.sleep(2 ** attempt)
ScoreTry ==
    /\ sc.pc = "try"
    /\ sc' = [sc EXCEPT !.pc = "create",
                        !.log = IF sc.attempt > 0
                                THEN Append(@, [ev |-> "sleep", n |-> Backoff(sc.attempt),
                                                ok |-> TRUE])
                                ELSE @]
    /\ UNCHANGED <<pd, scr>> /\ UNCHANGED RunVars

\* claude.messages.create, the parse and the return, or the except clause
ScoreCreate ==
    /\ sc.pc = "create"
    /\ \E reply \in Replies :
        LET called == Append(sc.log, [ev |-> "call", n |-> sc.attempt + 1,
                                      ok |-> Parses(reply)])
        IN  sc' = IF Parses(reply)
                  THEN [sc EXCEPT !.pc = "done", !.log = called, !.reply = reply,
                                  !.ret = ScoreDict(reply)]
                  ELSE IF sc.attempt + 1 < MaxAttempts
                  THEN [sc EXCEPT !.pc = "try", !.log = called, !.reply = reply,
                                  !.attempt = @ + 1]
                  ELSE [sc EXCEPT !.pc = "done", !.log = called, !.reply = reply,
                                  !.attempt = @ + 1, !.ret = NoScore]
    /\ UNCHANGED <<pd, scr>> /\ UNCHANGED RunVars

TextLens == {0, 40, 49, 50, 1500}

\* The run() variables of a specification that runs no pipeline.
NoRun ==
    /\ pc = None /\ runNo = 0 /\ env = None /\ disk = None /\ corpus = None
    /\ all_speeches = <<>> /\ idx = 0 /\ total_new = 0 /\ upstream = None
    /\ hist = None

ScoreInit ==
    /\ sc \in {ScoreCallOn(n) : n \in TextLens}
    /\ pd = None /\ scr = None /\ LOOKBACK_DAYS = DefaultLookback
    /\ NoRun

ScoreNext == ScoreEnter \/ ScoreTry \/ ScoreCreate

ScoreSpec == ScoreInit /\ [][ScoreNext]_vars

Calls == {k \in 1..Len(sc.log) : sc.log[k].ev = "call"}
Sleeps == {k \in 1..Len(sc.log) : sc.log[k].ev = "sleep"}

(* C5: one call of score_speech on a text of at least 50 characters calls  *)
(* the service at most 3 times, each call only after every earlier call    *)
(* failed, with a sleep of 2, then 4 seconds right before the second and   *)
(* the third call and none before the first; it returns the parsed reply   *)
(* of the first call that succeeded, and None only after 3 failed calls.   *)
C5_BoundedRetry ==
    sc.text_len >= 50 =>
        /\ Cardinality(Calls) <= 3
        /\ \A k \in Calls : \A j \in Calls : j < k => ~sc.log[j].ok
        /\ \A k \in Calls :
              IF sc.log[k].n = 1 THEN k = 1
              ELSE /\ k > 1 /\ sc.log[k - 1].ev = "sleep"
                   /\ sc.log[k - 1].n = 2 ^ (sc.log[k].n - 1)
        /\ \A k \in Sleeps : k < Len(sc.log) => sc.log[k + 1].ev = "call"
        /\ \A k \in Sleeps : \A j \in Sleeps : j < k => sc.log[k].n = 2 * sc.log[j].n
        /\ (sc.pc = "done" /\ sc.ret.ok) =>
              /\ sc.log[Len(sc.log)].ev = "call" /\ sc.log[Len(sc.log)].ok
              /\ sc.ret = ScoreDict(sc.reply)
        /\ (sc.pc = "done" /\ ~sc.ret.ok) =>
              /\ Cardinality(Calls) = 3
              /\ \A k \in Calls : ~sc.log[k].ok

\* Two calls failed and the third succeeded; its result is returned.
C5_Witness ==
    /\ sc.pc = "done" /\ sc.ret.ok /\ sc.text_len >= 50
    /\ Cardinality(Calls) = 3 /\ Cardinality(Sleeps) = 2

(* C6: the composite of every result score_speech accepts is               *)
(* round(0.30*stance + 0.35*balance + 0.35*direction): a nearest integer   *)
(* of (30*stance + 35*balance + 35*direction) / 100.                       *)
Weighted(r) == 30 * r.stance + 35 * r.balance + 35 * r.direction

C6_CompositeInvariant ==
    (sc.pc = "done" /\ sc.ret.ok) =>
        /\ 100 * sc.ret.score - Weighted(sc.ret) <= 50
        /\ Weighted(sc.ret) - 100 * sc.ret.score <= 50

(* C12: each of the three sub-scores (stance, balance, direction) of every  *)
(* result score_speech accepts is an integer in [-100, 100], whatever      *)
(* numbers the service's response carries.                                 *)
C12_SubScoresInRange ==
    (sc.pc = "done" /\ sc.ret.ok) =>
        \A v \in {sc.ret.stance, sc.ret.balance, sc.ret.direction} :
            v \in (-100)..100

(***************************************************************************)
(* ScrapeSpec: one call of one site adapter on one listing page.           *)
(***************************************************************************)
\* Most items (or anchors) on a page of ScrapeSpec.
MaxItems == 2

UrlA == [base |-> "https://www.federalreserve.gov", path |-> "/speech/a"]
UrlB == [base |-> "https://www.newyorkfed.org", path |-> "/speech/b"]
RelB == [base |-> "", path |-> "/speech/b"]
RelAbout == [base |-> "", path |-> "/about"]

Text(toks, val) == [toks |-> toks, val |-> val]
NoText == Text(<<>>, Today)

NoSibling == [kind |-> "none", url |-> EmptyUrl]
TagSibling == [kind |-> "tag", url |-> EmptyUrl]
TextSibling(u) == [kind |-> "text", url |-> u]

GoodItem ==
    [has_title |-> TRUE, title |-> 20, link |-> TRUE, href |-> UrlA,
     sibling |-> NoSibling,
     date |-> Text(<<"B", "DC", "Y">>, <<11, 3>>),
     block |-> Text(<<"Wd", "B", "DC", "Y">>, <<11, 3>>),
     href_date |-> NoDate, names |-> {"powell"}]

ScrapeItems ==
    { GoodItem,
      \* a relative href, an ISO date, no member named
      [GoodItem EXCEPT !.href = RelB, !.names = {},
                       !.date = Text(<<"Iso">>, <<11, 4>>),
                       !.block = Text(<<"Wd", "Iso">>, <<11, 4>>)],
      \* dated ten days ago
      [GoodItem EXCEPT !.href = UrlB, !.date = Text(<<"b", "DC", "Y">>, <<10, 26>>),
                       !.block = Text(<<"b", "DC", "Y">>, <<10, 26>>)],
      \* "November 3 2026": no comma after the day
      [GoodItem EXCEPT !.href = RelB, !.date = Text(<<"B", "D", "Y">>, <<11, 3>>),
                       !.block = Text(<<"Wd", "B", "D", "Y">>, <<11, 3>>)],
      \* no <link> / <a>
      [GoodItem EXCEPT !.link = FALSE, !.href = EmptyUrl],
      \* an empty <link> followed by a tag
      [GoodItem EXCEPT !.href = EmptyUrl, !.sibling = TagSibling],
      \* an empty <link> followed by the url as text
      [GoodItem EXCEPT !.href = EmptyUrl, !.sibling = TextSibling(UrlB), !.names = {"williams", "powell"}],
      \* an empty <link> and nothing after it
      [GoodItem EXCEPT !.href = EmptyUrl],
      \* no title element; a short title; a link that is not a speech
      [GoodItem EXCEPT !.has_title = FALSE, !.title = 0],
      [GoodItem EXCEPT !.title = 5, !.href = RelB],
      [GoodItem EXCEPT !.href = RelAbout],
      \* no date but in the href
      [GoodItem EXCEPT !.href = RelB, !.date = NoText, !.block = Text(<<"Wd">>, Today),
                       !.href_date = ADate(<<11, 1>>)] }

ScrapePages ==
    LET lists == SeqsUpTo(ScrapeItems, MaxItems)
    IN  {[ok |-> TRUE, items |-> l, anchors |-> <<>>] : l \in lists}
        \cup {[ok |-> TRUE, items |-> <<>>, anchors |-> l] : l \in lists}
        \cup {[ok |-> FALSE, items |-> <<>>, anchors |-> <<>>]}

BostonBase == "https://www.bostonfed.org"

ScrapeInit ==
    /\ scr \in {[adapter |-> a, page |-> p, done |-> FALSE, ret |-> <<>>] :
                 a \in {"fed_board", "ny_fed", "boston"}, p \in ScrapePages}
    /\ LOOKBACK_DAYS \in {DefaultLookback, 2 * DefaultLookback}
    /\ pd = None /\ sc = ScoreIdle
    /\ NoRun

ScrapeFedBoard ==
    /\ ~scr.done /\ scr.adapter = "fed_board"
    /\ scr' = [scr EXCEPT !.done = TRUE, !.ret = scrape_fed_board(scr.page, LOOKBACK_DAYS)]
    /\ UNCHANGED <<pd, sc, pc, runNo, env, disk, corpus, LOOKBACK_DAYS, all_speeches,
                   idx, total_new, upstream, hist>>

ScrapeNewYorkFed ==
    /\ ~scr.done /\ scr.adapter = "ny_fed"
    /\ scr' = [scr EXCEPT !.done = TRUE, !.ret = scrape_newyorkfed(scr.page, LOOKBACK_DAYS)]
    /\ UNCHANGED <<pd, sc, pc, runNo, env, disk, corpus, LOOKBACK_DAYS, all_speeches,
                   idx, total_new, upstream, hist>>

ScrapeRegional ==
    /\ ~scr.done /\ scr.adapter = "boston"
    /\ scr' = [scr EXCEPT !.done = TRUE, !.ret = scrape_regional("boston", BostonBase, scr.page,
                                                  LOOKBACK_DAYS)]
    /\ UNCHANGED <<pd, sc, pc, runNo, env, disk, corpus, LOOKBACK_DAYS, all_speeches,
                   idx, total_new, upstream, hist>>

ScrapeNext == ScrapeFedBoard \/ ScrapeNewYorkFed \/ ScrapeRegional

ScrapeSpec == ScrapeInit /\ [][ScrapeNext]_vars

\* The hrefs the fallback loop has seen when it comes to anchor i.
RECURSIVE SeenBefore(_, _)
SeenBefore(anchors, i) ==
    IF i = 1 THEN {} ELSE FallbackSeen(anchors[i - 1], SeenBefore(anchors, i - 1))

\* What processing element i of the page yields by itself.
ItemOutcome(adapter, page, i, lookback) ==
    CASE adapter = "fed_board" -> FedBoardItem(page.items[i], lookback)
      [] adapter = "ny_fed"    -> NewYorkFedItem(page.items[i], lookback)
      [] page.items # <<>>     -> RegionalItem(adapter, BostonBase, page.items[i], lookback)
      [] OTHER                 -> FallbackItem(adapter, BostonBase, page.anchors[i],
                                               SeenBefore(page.anchors, i), lookback)

PageElems(adapter, page) ==
    IF adapter \notin {"fed_board", "ny_fed"} /\ page.items = <<>>
    THEN page.anchors ELSE page.items

InRet(sp) == \E k \in 1..Len(scr.ret) : scr.ret[k] = sp

(* C8: item-level isolation in every adapter and in both modes of          *)
(* scrape_regional: every item of the page that qualifies by itself is     *)
(* returned as a candidate, whatever error another item of the page raised.*)
C8_ItemIsolation ==
    (scr.done /\ scr.page.ok) =>
        \A i \in 1..Len(PageElems(scr.adapter, scr.page)) :
            LET r == ItemOutcome(scr.adapter, scr.page, i, LOOKBACK_DAYS)
            IN  r.kind = "append" => InRet(r.sp)

\* The same, for the adapters and the mode that wrap each item in a try.
C8_IsolationWhereTried ==
    (scr.done /\ scr.page.ok
       /\ (scr.adapter \in {"fed_board", "ny_fed"} \/ scr.page.items # <<>>)) =>
        \A i \in 1..Len(PageElems(scr.adapter, scr.page)) :
            LET r == ItemOutcome(scr.adapter, scr.page, i, LOOKBACK_DAYS)
            IN  r.kind = "append" => InRet(r.sp)

(* C11: every candidate a site adapter returns (scrape_fed_board,           *)
(* scrape_newyorkfed, scrape_regional in both modes) has a url that is     *)
(* non-empty and absolute, whatever link element or href the item holds.   *)
C11_UrlAbsolute ==
    scr.done =>
        \A k \in 1..Len(scr.ret) :
            scr.ret[k].url # EmptyUrl /\ StartsWithHttp(scr.ret[k].url)

(***************************************************************************)
(* CORPUS MANAGER                                                          *)
(*                                                                         *)
(* A corpus is a function from the member ids it has a bucket for to the   *)
(* sequence of entries of that bucket.  The corpus file is [state, store]: *)
(* state is "absent" (no file), "complete" (a whole JSON document, store)  *)
(* or "truncated" (opened for writing, the document not yet written out).  *)
(***************************************************************************)
EmptyCorpus == <<>>

UrlC == [base |-> "https://www.philadelphiafed.org", path |-> "/speech/c"]
UrlOld == [base |-> "https://www.federalreserve.gov", path |-> "/speech/old"]

\* hashlib.md5(url.encode()).hexdigest()[:12]: 48 bits of the digest, so two
\* urls may share it.  A hash is written as one url of those that share it;
\* UrlC and UrlA are the pair of the model that collide.
url_hash(url) == IF url = UrlC THEN UrlA ELSE url

\* The mutant of is_duplicate that compares urls only.
is_duplicate_url_only(c, url) ==
    \E b \in DOMAIN c : \E i \in 1..Len(c[b]) : c[b][i].url = url

\* The mutant of is_duplicate that leaves each bucket after its first speech.
is_duplicate_first_only(c, url) ==
    \E b \in DOMAIN c :
        /\ Len(c[b]) > 0
        /\ (c[b][1].url = url \/ c[b][1].url_hash = url_hash(url))

is_duplicate(c, url) ==
    \E b \in DOMAIN c : \E i \in 1..Len(c[b]) :
        c[b][i].url = url \/ c[b][i].url_hash = url_hash(url)

\* load_corpus: json.load raises on a file that holds no whole document.
LoadFails(file) == file.state = "truncated"
load_corpus(file) == IF file.state = "complete" THEN file.store ELSE EmptyCorpus

\* open(CORPUS_FILE, "w"): the file is created or cut to length zero.
OpenForWrite(file) == [state |-> "truncated", store |-> EmptyCorpus]

\* json.dump(corpus, f, indent=2) and the close at the end of the with block
DumpAndClose(file, c) == [state |-> "complete", store |-> c]

(***************************************************************************)
(* MAIN PIPELINE                                                           *)
(***************************************************************************)
\* for speeches in corpus.values() for sp in speeches
AllEntries(c) == UNION {{c[b][i] : i \in 1..Len(c[b])} : b \in DOMAIN c}

\* sum(len(v) for v in corpus.values())
EntryCount(c) == Cardinality(UNION {{<<b, i>> : i \in 1..Len(c[b])} : b \in DOMAIN c})

\* max(all_dates), on ISO strings
Newest(c) ==
    CHOOSE d \in {e.date : e \in AllEntries(c)} :
        \A e \in AllEntries(c) : IsoLeq(e.date, d)

\* The mutant of the lookback computation that forgets the "+ 1".
effective_lookback_no_plus_one(c, lookback) ==
    IF EntryCount(c) > 0
    THEN Max(Ord(Today) - Ord(Newest(c)), lookback)
    ELSE lookback

\* run(), lines 453-464: the value LOOKBACK_DAYS has after them
effective_lookback(c, lookback) ==
    IF EntryCount(c) > 0
    THEN LET days_since == (Ord(Today) - Ord(Newest(c))) + 1
         IN  Max(days_since, lookback)
    ELSE lookback

\* REGIONAL_SOURCES, cut to its first two banks: <<bank_id, base_url>>
REGIONAL_SOURCES ==
    <<[bank_id |-> "boston", base_url |-> "https://www.bostonfed.org"],
      [bank_id |-> "philadelphia", base_url |-> "https://www.philadelphiafed.org"]>>

RECURSIVE RegionalFrom(_, _, _)
RegionalFrom(k, pages, lookback) ==
    IF k > Len(REGIONAL_SOURCES) THEN <<>>
    ELSE scrape_regional(REGIONAL_SOURCES[k].bank_id, REGIONAL_SOURCES[k].base_url,
                         pages[REGIONAL_SOURCES[k].bank_id], lookback)
         \o RegionalFrom(k + 1, pages, lookback)

\* run(), lines 467-479: all_speeches once every source was scraped
Discovered(pages, lookback) ==
    scrape_fed_board(pages.fed_board, lookback)
    \o scrape_newyorkfed(pages.ny_fed, lookback)
    \o RegionalFrom(1, pages, lookback)

Bucket(sp) == IF sp.member_id = None THEN "unknown" ELSE sp.member_id

Entry(sp, score) ==
    [date |-> sp.date, url |-> sp.url, url_hash |-> url_hash(sp.url),
     source |-> sp.source, score |-> score.score, stance |-> score.stance,
     balance |-> score.balance, direction |-> score.direction]

WithBucket(c, b) == IF b \in DOMAIN c THEN c ELSE (b :> <<>>) @@ c

Appended(c, sp, score) ==
    LET b == Bucket(sp)
    IN  [WithBucket(c, b) EXCEPT ![b] = Append(@, Entry(sp, score))]

\* The mutant of the loop body that makes the bucket before it looks at the
\* text and the score.
corpus_after_bucket_first(c, sp, text_len, score) ==
    IF text_len = 0 \/ ~score.ok THEN WithBucket(c, Bucket(sp))
    ELSE Appended(c, sp, score)

\* run(), lines 490-522: the corpus after the body of the loop ran for a
\* candidate that is no duplicate, given the text fetched and the score.
corpus_after(c, sp, text_len, score) ==
    IF text_len = 0 THEN c                  \* "No text - skipping"
    ELSE IF ~score.ok THEN c                \* "Score failed - skipping"
    ELSE Appended(c, sp, score)

\* Most invocations of the pipeline in a behaviour.
MaxRuns == 2

\* The lengths of the text fetch_speech_text returns: "" (a failed fetch), a
\* text under the 50 characters the scorer asks for, and the 1500 character cap.
FetchLens == {0, 40, 1500}

Item(href, toks, d, names) ==
    [GoodItem EXCEPT !.href = href, !.date = Text(toks, d), !.block = Text(toks, d),
                     !.names = names]

Page(items) == [ok |-> TRUE, items |-> items, anchors |-> <<>>]
LinkPage(anchors) == [ok |-> TRUE, items |-> <<>>, anchors |-> anchors]
FailedPage == [ok |-> FALSE, items |-> <<>>, anchors |-> <<>>]

RelC == [base |-> "", path |-> "/speech/c"]

\* What the sources serve.  In the first, the Board feed and the Boston page
\* list the same speech, and a Philadelphia url shares its hash; in the second
\* the Board feed is down, one item is ten days old and others are malformed.
Upstreams ==
    { [fed_board    |-> Page(<<Item(UrlA, <<"B", "DC", "Y">>, <<11, 3>>, {"powell"})>>),
       ny_fed       |-> Page(<<Item(UrlB, <<"Iso">>, <<11, 4>>, {"powell"})>>),
       boston       |-> Page(<<Item(UrlA, <<"Wd", "b", "DC", "Y">>, <<11, 3>>, {})>>),
       philadelphia |-> LinkPage(<<Item(RelC, <<"B", "DC", "Y">>, <<11, 4>>, {"powell"})>>)],
      [fed_board    |-> FailedPage,
       ny_fed       |-> Page(<<Item(UrlB, <<"b", "DC", "Y">>, <<10, 26>>, {"williams"}),
                               Item(UrlA, <<"B", "D", "Y">>, <<11, 3>>, {}),
                               Item(UrlA, <<"D", "B", "Y">>, <<11, 2>>, {})>>),
       boston       |-> LinkPage(<<Item(RelB, <<"B", "D", "Y">>, <<11, 3>>, {}),
                                   Item(RelC, <<"Iso">>, <<11, 3>>, {})>>),
       philadelphia |-> Page(<<Item(RelC, <<"Wd", "Iso">>, <<11, 4>>, {"jefferson"})>>)] }

OldEntry(d) ==
    [date |-> d, url |-> UrlOld, url_hash |-> url_hash(UrlOld), source |-> "fed_board",
     score |-> 12, stance |-> 10, balance |-> 10, direction |-> 15]

\* The corpus file before the first run: none, or one earlier entry.
InitialFiles ==
    {[state |-> "absent", store |-> EmptyCorpus]}
    \cup {[state |-> "complete", store |-> ("powell" :> <<OldEntry(d)>>)] :
            d \in {<<10, 20>>, <<10, 29>>, <<11, 1>>}}

\* History, for the properties: how the run before ended and what it did with
\* each candidate (prev), what this run did (cur), the corpus this run loaded
\* and the window its adapters were given.
NoHist == [prev_end |-> "none", prev |-> <<>>, cur |-> <<>>, loaded |-> EmptyCorpus,
           window |-> 0]

Init ==
    /\ pd = None /\ scr = None /\ sc = ScoreIdle
    /\ pc = "start" /\ runNo = 1
    /\ env \in {[LOOKBACK_DAYS |-> w] : w \in {DefaultLookback, 2 * DefaultLookback}}
    /\ LOOKBACK_DAYS = env.LOOKBACK_DAYS
    /\ disk \in InitialFiles
    /\ corpus = EmptyCorpus
    /\ all_speeches = <<>> /\ idx = 0 /\ total_new = 0
    /\ upstream \in Upstreams
    /\ hist = NoHist

Outcome(sp, res) == [url |-> sp.url, res |-> res]
Noted(sp, res) == [hist EXCEPT !.cur = Append(@, Outcome(sp, res))]

\* corpus = load_corpus() and the lookback; json.load raising ends the run.
Load ==
    /\ pc = "start"
    /\ IF LoadFails(disk)
       THEN /\ pc' = "aborted"
            /\ UNCHANGED <<corpus, LOOKBACK_DAYS, hist>>
       ELSE /\ corpus' = load_corpus(disk)
            /\ LOOKBACK_DAYS' = effective_lookback(load_corpus(disk), LOOKBACK_DAYS)
            /\ hist' = [hist EXCEPT !.loaded = load_corpus(disk)]
            /\ pc' = "discover"
    /\ UNCHANGED <<pd, sc, scr, runNo, env, disk, all_speeches, idx, total_new, upstream>>

\* Collect from all sources
Discover ==
    /\ pc = "discover"
    /\ all_speeches' = Discovered(upstream, LOOKBACK_DAYS)
    /\ hist' = [hist EXCEPT !.window = LOOKBACK_DAYS]
    /\ idx' = 1
    /\ pc' = "loop"
    /\ UNCHANGED <<pd, sc, scr, runNo, env, disk, corpus, LOOKBACK_DAYS, total_new,
                   upstream>>

\* if is_duplicate(corpus, sp["url"]): continue
SkipDuplicate ==
    /\ pc = "loop" /\ idx <= Len(all_speeches)
    /\ is_duplicate(corpus, all_speeches[idx].url)
    /\ idx' = idx + 1
    /\ hist' = Noted(all_speeches[idx], "dup")
    /\ UNCHANGED <<pd, sc, scr, pc, runNo, env, disk, corpus, LOOKBACK_DAYS,
                   all_speeches, total_new, upstream>>

\* text = fetch_speech_text(sp["url"]); if not text: continue; else the
\* scorer is called on it
Fetch ==
    /\ pc = "loop" /\ idx <= Len(all_speeches)
    /\ ~is_duplicate(corpus, all_speeches[idx].url)
    /\ \E text_len \in FetchLens :
          IF text_len = 0
          THEN /\ corpus' = corpus_after(corpus, all_speeches[idx], text_len, NoScore)
               /\ idx' = idx + 1
               /\ hist' = Noted(all_speeches[idx], "notext")
               /\ UNCHANGED <<sc, pc>>
          ELSE /\ sc' = ScoreCallOn(text_len)
               /\ pc' = "scoring"
               /\ UNCHANGED <<corpus, idx, hist>>
    /\ UNCHANGED <<pd, scr, runNo, env, disk, LOOKBACK_DAYS, all_speeches, total_new,
                   upstream>>

\* score_speech has returned: skip the candidate, or append its entry
Scored ==
    /\ pc = "scoring" /\ sc.pc = "done"
    /\ corpus' = corpus_after(corpus, all_speeches[idx], sc.text_len, sc.ret)
    /\ IF sc.ret.ok
       THEN /\ total_new' = total_new + 1
            /\ hist' = Noted(all_speeches[idx], "ingested")
            /\ pc' = "save_open"
            /\ idx' = idx
       ELSE /\ hist' = Noted(all_speeches[idx], "noscore")
            /\ pc' = "loop"
            /\ idx' = idx + 1
            /\ UNCHANGED total_new
    /\ sc' = ScoreIdle
    /\ UNCHANGED <<pd, scr, runNo, env, disk, LOOKBACK_DAYS, all_speeches, upstream>>

\* save_corpus: open(CORPUS_FILE, "w")
SaveOpen ==
    /\ pc = "save_open"
    /\ disk' = OpenForWrite(disk)
    /\ pc' = "save_dump"
    /\ UNCHANGED <<pd, sc, scr, runNo, env, corpus, LOOKBACK_DAYS, all_speeches, idx,
                   total_new, upstream, hist>>

\* save_corpus: json.dump and the end of the with block; then the next candidate
SaveDump ==
    /\ pc = "save_dump"
    /\ disk' = DumpAndClose(disk, corpus)
    /\ pc' = "loop"
    /\ idx' = idx + 1
    /\ UNCHANGED <<pd, sc, scr, runNo, env, corpus, LOOKBACK_DAYS, all_speeches,
                   total_new, upstream, hist>>

\* The loop is over: the summary is logged and run() returns.
Finish ==
    /\ pc = "loop" /\ idx > Len(all_speeches)
    /\ pc' = "done"
    /\ UNCHANGED <<pd, sc, scr, runNo, env, disk, corpus, LOOKBACK_DAYS, all_speeches,
                   idx, total_new, upstream, hist>>

Running == {"start", "discover", "loop", "scoring", "save_open", "save_dump"}

\* The process is killed (the job is cancelled, the machine stops): what it
\* held in memory is gone, the file stays as it is.
Crash ==
    /\ pc \in Running
    /\ pc' = "crashed"
    /\ sc' = ScoreIdle
    /\ corpus' = EmptyCorpus
    /\ all_speeches' = <<>> /\ idx' = 0 /\ total_new' = 0
    /\ hist' = NoHist
    /\ UNCHANGED <<pd, scr, runNo, env, disk, LOOKBACK_DAYS, upstream>>

\* The next invocation: a new process, the module globals set anew.
NextRun ==
    /\ pc \in {"done", "crashed", "aborted"}
    /\ runNo < MaxRuns
    /\ runNo' = runNo + 1
    /\ pc' = "start"
    /\ sc' = ScoreIdle
    /\ corpus' = EmptyCorpus
    /\ LOOKBACK_DAYS' = env.LOOKBACK_DAYS
    /\ all_speeches' = <<>> /\ idx' = 0 /\ total_new' = 0
    /\ hist' = [NoHist EXCEPT !.prev_end = pc, !.prev = hist.cur]
    /\ UNCHANGED <<pd, scr, env, disk, upstream>>

Next ==
    \/ Load \/ Discover \/ SkipDuplicate \/ Fetch
    \/ ScoreEnter \/ ScoreTry \/ ScoreCreate \/ Scored
    \/ SaveOpen \/ SaveDump \/ Finish \/ Crash \/ NextRun

Spec == Init /\ [][Next]_vars

Positions(c) == UNION {{<<b, i>> : i \in 1..Len(c[b])} : b \in DOMAIN c}

Unique(c) ==
    \A p \in Positions(c) : \A q \in Positions(c) :
        p # q => /\ c[p[1]][p[2]].url # c[q[1]][q[2]].url
                 /\ c[p[1]][p[2]].url_hash # c[q[1]][q[2]].url_hash

HasOutcome(outcomes, url, results) ==
    \E k \in 1..Len(outcomes) : outcomes[k].url = url /\ outcomes[k].res \in results

(* C1: from a corpus in which no two entries share a url or a url_hash, no *)
(* state of a run has two entries, in any buckets, with the same url or    *)
(* the same url_hash, in memory or in the corpus file.                     *)
C1_NoDuplicateEntries == Unique(corpus) /\ Unique(disk.store)

\* A run that ingested UrlA, then met UrlA again from another source and UrlC,
\* whose hash is that of UrlA, and skipped both.
C1_Witness ==
    /\ pc = "done"
    /\ HasOutcome(hist.cur, UrlA, {"ingested"})
    /\ HasOutcome(hist.cur, UrlA, {"dup"})
    /\ HasOutcome(hist.cur, UrlC, {"dup"})
    /\ EntryCount(corpus) >= 3

AfterFullRun == runNo >= 2 /\ hist.prev_end = "done"

(* C2 as claimed: the run after a full run adds no entry, whatever the     *)
(* first run did with each candidate.                                      *)
C2_SecondRunAddsNothing == AfterFullRun => total_new = 0

(* C2 as amended: the run after a full run adds an entry only for a        *)
(* candidate the first run met and skipped, each time it met it, for empty *)
(* text or failed scoring; it adds none for a candidate the first run      *)
(* ingested or skipped as a duplicate.                                     *)
C2_SecondRunAddsOnlyFailed ==
    AfterFullRun =>
        \A k \in 1..Len(hist.cur) :
            hist.cur[k].res = "ingested" =>
                /\ HasOutcome(hist.prev, hist.cur[k].url, {"notext", "noscore"})
                /\ ~HasOutcome(hist.prev, hist.cur[k].url, {"ingested", "dup"})

\* The second run is over: it skipped as a duplicate what the first ingested
\* and ingested what the first had skipped for a failure.
C2_Witness ==
    /\ AfterFullRun /\ pc = "done"
    /\ \E u \in {UrlA, UrlB, UrlC} :
          /\ HasOutcome(hist.prev, u, {"ingested"})
          /\ HasOutcome(hist.cur, u, {"dup"})
    /\ \E u \in {UrlA, UrlB, UrlC} :
          /\ HasOutcome(hist.prev, u, {"notext", "noscore"})
          /\ HasOutcome(hist.cur, u, {"ingested"})

\* The entries a reader of the corpus file gets.
DurableEntries == IF disk.state = "complete" THEN AllEntries(disk.store) ELSE {}

\* The entry appended in the iteration the loop is in, not yet saved.
InFlight ==
    IF pc \in {"save_open", "save_dump"}
    THEN LET b == Bucket(all_speeches[idx]) IN {corpus[b][Len(corpus[b])]}
    ELSE {}

(* C3: at every point of the candidate loop the corpus file holds every    *)
(* entry of the in-memory corpus but, at most, the one appended in the     *)
(* iteration under way.                                                    *)
C3_PersistedAfterEveryAppend ==
    pc \in {"loop", "scoring", "save_open", "save_dump", "done"} =>
        \A e \in AllEntries(corpus) : e \in DurableEntries \/ e \in InFlight

(* C4: the corpus file never holds a half-written store: whenever it is    *)
(* read, load_corpus returns a whole store, and no run ends on a file it   *)
(* cannot read.                                                            *)
C4_AtomicPersist == ~LoadFails(disk) /\ pc # "aborted"

\* The newest date of the loaded corpus, by calendar order.
DaysOld(c) ==
    Ord(Today) - (CHOOSE n \in {Ord(e.date) : e \in AllEntries(c)} :
                     \A e \in AllEntries(c) : Ord(e.date) <= n)

ExpectedWindow ==
    IF AllEntries(hist.loaded) = {} THEN env.LOOKBACK_DAYS
    ELSE Max(DaysOld(hist.loaded) + 1, env.LOOKBACK_DAYS)

(* C7: with the newest entry of the loaded corpus N days old and W the     *)
(* configured LOOKBACK_DAYS, every adapter of the run uses the window      *)
(* max(N+1, W) for its cutoff, and W when the corpus is empty.             *)
C7_LookbackAdaptive ==
    pc \in {"discover", "loop", "scoring", "save_open", "save_dump", "done"} =>
        /\ LOOKBACK_DAYS = ExpectedWindow
        /\ pc # "discover" =>
              /\ hist.window = ExpectedWindow
              /\ \A k \in 1..Len(all_speeches) :
                    Ord(all_speeches[k].date) >= Ord(Today) - ExpectedWindow

\* The loaded corpus is 16 days old and the configured window is 7: the item
\* of ten days ago is a candidate.
C7_Witness ==
    /\ pc = "done"
    /\ AllEntries(hist.loaded) # {}
    /\ DaysOld(hist.loaded) + 1 > env.LOOKBACK_DAYS
    /\ env.LOOKBACK_DAYS = DefaultLookback
    /\ \E k \in 1..Len(all_speeches) : all_speeches[k].date = <<10, 26>>

SkippedNow ==
    /\ Len(hist'.cur) = Len(hist.cur) + 1
    /\ hist'.cur[Len(hist'.cur)].res \in {"notext", "noscore"}

(* C10: the step that skips a candidate for empty text or for a failed     *)
(* scoring leaves the in-memory corpus and the corpus file as they were    *)
(* and moves the loop to the next candidate; when the loop ends every      *)
(* candidate of the list has been dealt with.                              *)
C10_SkipLeavesCorpus ==
    [][/\ SkippedNow => /\ corpus' = corpus /\ disk' = disk
                        /\ pc' = "loop" /\ idx' = idx + 1
       /\ (pc = "loop" /\ pc' = "done") =>
              /\ Len(hist.cur) = Len(all_speeches)
              /\ \A k \in 1..Len(all_speeches) : hist.cur[k].url = all_speeches[k].url
      ]_vars

\* A run that skipped one candidate for empty text and one for a failed
\* scoring, neither of which has a bucket, and ingested a later one.
C10_Witness ==
    /\ pc = "done"
    /\ \E i \in 1..Len(hist.cur) : \E j \in 1..Len(hist.cur) : \E k \in 1..Len(hist.cur) :
          /\ i < k /\ j < k
          /\ hist.cur[i].res = "notext"
          /\ hist.cur[j].res = "noscore"
          /\ hist.cur[k].res = "ingested"
          /\ Bucket(all_speeches[i]) \notin DOMAIN corpus

ParseTexts == {[toks |-> t, val |-> SomeDate] : t \in SeqsUpTo(Tokens, MaxLen)}

ParseInit ==
    /\ pd \in {[text |-> t, done |-> FALSE, ret |-> NoDate] : t \in ParseTexts}
    /\ scr = None /\ sc = ScoreIdle /\ LOOKBACK_DAYS = DefaultLookback
    /\ NoRun

ParseCall ==
    /\ ~pd.done
    /\ pd' = [pd EXCEPT !.done = TRUE, !.ret = parse_date(pd.text)]
    /\ UNCHANGED <<sc, scr, pc, runNo, env, disk, corpus, LOOKBACK_DAYS, all_speeches,
                   idx, total_new, upstream, hist>>

ParseNext == ParseCall

ParseSpec == ParseInit /\ [][ParseNext]_vars

\* A text none of DATE_FMTS accepts as a whole and in which neither fallback
\* regex finds a substring a format accepts: its shape is that of no supported
\* date.
Windows(toks) ==
    {SubSeq(toks, i, j) : i \in 1..Len(toks), j \in 1..Len(toks)}

MatchesNoFormat(toks) ==
    \A w \in Windows(StripOrdinals(toks)) : ~StrptimeAny(w)

(* C9: parse_date returns None, and never throws, for every input that     *)
(* matches none of the supported formats, also when the fallback regex     *)
(* extracts a month-name-shaped substring that matches no format.          *)
C9_ParseDateTotal ==
    (pd.done /\ MatchesNoFormat(pd.text.toks)) => pd.ret = NoDate

=============================================================================
